---- MODULE Spec2Model ----
(***************************************************************************)
(* Model of staplelib/commands.py: the round-robin generator and the four  *)
(* commands zip, select, delete and split.                                 *)
(*                                                                         *)
(* Strings are tuples of one-character strings.  A page handed to the      *)
(* output writer is the triple <<input index, page number, rotation>>.     *)
(* Exceptions are values of err: "none" while the command runs or after    *)
(* it returned, otherwise the name of the exception type that escaped.     *)
(***************************************************************************)
EXTENDS Integers, Sequences, FiniteSets, TLC

VARIABLES
    cmd,        \* which entry point runs: "rr", "zip", "select", "delete", "split"
    args,       \* the argument list of the command (for "rr": the iterables)
    pc,         \* position in the running function
    rr,         \* frame of the round_robin_list generator
    fileno,     \* number of inputs the current loop has completed
    staged,     \* zip: filestozip; split: inputs (the documents read)
    output,     \* pages added to the current PdfFileWriter, in addPage order
    template,   \* split: output_template of the current input, a format string
    pageno,     \* split: pages of the current input already written
    written,    \* write_pdf calls that returned, in order: [path, pages]
    err,        \* exception type that escaped the command, or "none"
    msg         \* message carried by the escaped exception

vars == <<cmd, args, pc, rr, fileno, staged, output, template, pageno,
          written, err, msg>>

----------------------------------------------------------------------------
(* Bounds of the explored inputs. *)

\* round_robin_list: at most MaxLists iterables, each of at most MaxLen elements
MaxLists == 3
MaxLen == 3

\* zip, select, delete: the size of an argument list is its number of input
\* tokens plus the pages of their documents plus the items of their ranges
MaxSize == 6

\* split: at most MaxSplitFiles inputs holding at most MaxSplitPages pages in all
MaxSplitFiles == 2
MaxSplitPages == 11

----------------------------------------------------------------------------
(* Sequence helpers. *)

Range(s) == {s[i] : i \in 1..Len(s)}

RECURSIVE SumSeq(_)
SumSeq(s) == IF s = <<>> THEN 0 ELSE Head(s) + SumSeq(Tail(s))

RECURSIVE Flatten(_)
Flatten(ss) == IF ss = <<>> THEN <<>> ELSE Head(ss) \o Flatten(Tail(ss))

\* the message of an exception: what it reports, and the page and file it names
NoMsg == [kind |-> "", page |-> 0, name |-> <<>>]

----------------------------------------------------------------------------
(* round_robin_list.                                                       *)
(*                                                                         *)
(* An iterator iter(iterables[i]) is its index i together with its cursor  *)
(* cur[i], the number of elements it has produced.  cyc is the chain of     *)
(* itertools.cycle objects built so far; the last one is the current       *)
(* cycled_iterables.  Cycle 1 draws from the generator expression over     *)
(* the iterables, cycle k > 1 from islice(cycle k-1, rem).  Each cycle      *)
(* keeps the items it has drawn in saved and replays them from idx once     *)
(* its source has ended.                                                   *)

\* itertools.cycle(source): nothing saved yet, source good for n more items
NewCycle(n) == [saved |-> <<>>, idx |-> 1, rem |-> n]

\* position of the next replayed item after position i of n saved items
ReplayAdvance(i, n) == IF i >= n THEN 1 ELSE i + 1

\* pending = len(iterables) (line 19)
InitialPendingOffByOne(iterables) ==
    IF Len(iterables) = 0 THEN 0 ELSE Len(iterables) - 1

InitialPending(iterables) == Len(iterables)

\* the stop argument of islice(cycled_iterables, pending) (line 27)
IsliceStopStale(pending) == pending + 1

IsliceStop(pending) == pending

\* next(cycle k): [cyc |-> chain afterwards, item |-> iterator index, 0 = StopIteration]
RECURSIVE CycleNext(_, _)
CycleNext(cyc, k) ==
    LET c == cyc[k]
        replay(ch) ==
            LET d == ch[k] IN
            IF d.saved = <<>>
            THEN [cyc |-> ch, item |-> 0]
            ELSE [cyc |-> [ch EXCEPT ![k].idx = ReplayAdvance(d.idx, Len(d.saved))],
                  item |-> d.saved[d.idx]]
    IN
    IF c.rem > 0
    THEN IF k = 1
         THEN LET it == Len(c.saved) + 1 IN
              [cyc |-> [cyc EXCEPT ![1].saved = Append(@, it), ![1].rem = @ - 1],
               item |-> it]
         ELSE LET r == CycleNext(cyc, k - 1) IN
              IF r.item = 0
              THEN replay([r.cyc EXCEPT ![k].rem = 0])
              ELSE [cyc |-> [r.cyc EXCEPT ![k].saved = Append(@, r.item),
                                          ![k].rem = @ - 1],
                    item |-> r.item]
    ELSE replay(cyc)

\* the generator frame at its first resumption (lines 19-20)
RRStart(iterables) ==
    [iterables |-> iterables,
     pending   |-> InitialPending(iterables),
     cur       |-> [i \in 1..Len(iterables) |-> 0],
     cyc       |-> <<NewCycle(Len(iterables))>>,
     out       |-> <<>>]

\* one pass through "for it in cycled_iterables: yield next(it)" (lines 21-27):
\* either one element is yielded, or StopIteration rebuilds the cycle
RRAdvance(s) ==
    LET r == CycleNext(s.cyc, Len(s.cyc)) IN
    IF r.item = 0
    THEN [s EXCEPT !.cyc = r.cyc]
    ELSE LET i == r.item IN
         IF s.cur[i] < Len(s.iterables[i])
         THEN [s EXCEPT !.cyc = r.cyc,
                        !.cur[i] = @ + 1,
                        !.out = Append(@, s.iterables[i][s.cur[i] + 1])]
         ELSE [s EXCEPT !.cyc = Append(r.cyc, NewCycle(IsliceStop(s.pending - 1))),
                        !.pending = @ - 1]

\* list(round_robin_list(iterables))
RECURSIVE RRRun(_)
RRRun(s) == IF s.pending = 0 THEN s.out ELSE RRRun(RRAdvance(s))

round_robin_list(iterables) == RRRun(RRStart(iterables))

\* iterables of the stand-alone generator: element k of iterable i is <<i, k>>
TaggedLists ==
    UNION {[1..n -> 0..MaxLen] : n \in 0..MaxLists}

Tagged(lens) == [i \in 1..Len(lens) |-> [k \in 1..lens[i] |-> <<i, k>>]]

Idle ==
    /\ fileno = 0
    /\ staged = <<>>
    /\ output = <<>>
    /\ template = <<>>
    /\ pageno = 0
    /\ written = <<>>
    /\ err = "none"
    /\ msg = NoMsg

InitRR ==
    /\ cmd = "rr"
    /\ \E lens \in TaggedLists : args = Tagged(lens)
    /\ pc = "running"
    /\ rr = RRStart(args)
    /\ Idle

\* the consumer resumes the generator and it yields an element
RRYield ==
    /\ cmd = "rr" /\ pc = "running" /\ rr.pending > 0
    /\ Len(RRAdvance(rr).out) > Len(rr.out)
    /\ rr' = RRAdvance(rr)
    /\ UNCHANGED <<cmd, args, pc, fileno, staged, output, template, pageno,
                   written, err, msg>>

\* inside the generator: next(it) raised StopIteration, the cycle is rebuilt
RRExhaust ==
    /\ cmd = "rr" /\ pc = "running" /\ rr.pending > 0
    /\ Len(RRAdvance(rr).out) = Len(rr.out)
    /\ rr' = RRAdvance(rr)
    /\ UNCHANGED <<cmd, args, pc, fileno, staged, output, template, pageno,
                   written, err, msg>>

\* "while pending" is false: the generator returns
RRReturn ==
    /\ cmd = "rr" /\ pc = "running" /\ rr.pending = 0
    /\ pc' = "done"
    /\ UNCHANGED <<cmd, args, rr, fileno, staged, output, template, pageno,
                   written, err, msg>>

NextRR == RRYield \/ RRExhaust \/ RRReturn

SpecRR == InitRR /\ [][NextRR]_vars

\* the consumer (list(...), a for loop) keeps resuming the generator
FairRR == SpecRR /\ WF_vars(NextRR)

----------------------------------------------------------------------------
(* Strings, paths and number formatting. *)

Digits == <<"0", "1", "2", "3", "4", "5", "6", "7", "8", "9">>

\* str(n) and '%d' % n for n >= 0
RECURSIVE Str(_)
Str(n) == IF n < 10 THEN <<Digits[n + 1]>>
          ELSE Append(Str(n \div 10), Digits[(n % 10) + 1])

\* '%0<width>d' % n: zeros on the left up to width characters
ZeroPad(width, n) ==
    LET s == Str(n) IN
    IF Len(s) >= width THEN s
    ELSE [i \in 1..(width - Len(s)) |-> "0"] \o s

\* position of the last ch in s, 0 when there is none
LastIndex(s, ch) ==
    IF \E i \in 1..Len(s) : s[i] = ch
    THEN CHOOSE i \in 1..Len(s) : s[i] = ch /\ \A j \in (i + 1)..Len(s) : s[j] # ch
    ELSE 0

sep == <<"/">>

\* os.path.basename
basename(path) == SubSeq(path, LastIndex(path, "/") + 1, Len(path))

\* os.path.splitext: the extension starts at the last dot that follows a non-dot
splitext(name) ==
    LET d == LastIndex(name, ".") IN
    IF d > 1 /\ \E j \in 1..(d - 1) : name[j] # "."
    THEN <<SubSeq(name, 1, d - 1), SubSeq(name, d, Len(name))>>
    ELSE <<name, <<>>>>

\* os.path.isabs
isabs(path) == path # <<>> /\ path[1] = "/"

\* math.ceil(math.log10(n)) for n >= 1: the least k with 10^k >= n
RECURSIVE CeilLog10From(_, _, _)
CeilLog10From(n, k, pow) ==
    IF pow >= n THEN k ELSE CeilLog10From(n, k + 1, pow * 10)

CeilLog10(n) == CeilLog10From(n, 0, 1)

----------------------------------------------------------------------------
(* The collaborators in staplelib.iohelper and staplelib.OPTIONS. *)

ROTATION_NONE == 0

Rotations == {ROTATION_NONE, 90}

\* staplelib.OPTIONS.destdir
destdir == <<"d">>

\* output names that exist before the command runs
ExistingFiles == {<<"/", "e">>}

\* documents that cannot be read
Unreadable == {<<"u", ".", "p">>}

\* iohelper.parse_ranges: one entry per token, in token order
parse_ranges(tokens) ==
    [i \in 1..Len(tokens) |->
        [name |-> tokens[i].name, pages |-> tokens[i].pages,
         pdf |-> tokens[i].numPages]]

\* iohelper.check_output_file: TRUE when it raises
check_output_file(filename) == filename \in ExistingFiles

\* iohelper.expand_input_files
expand_input_files(tokens) == tokens

\* the exception types a failing iohelper.write_pdf may raise
WriteErrors == {"CommandError", "OSError"}

----------------------------------------------------------------------------
(* zip, select and delete. *)

\* 1 <= pageno <= pdf.getNumPages() (lines 54, 115)
InBoundsOffByOne(p, n) == 1 <= p /\ p <= n + 1

InBounds(p, n) == 1 <= p /\ p <= n

\* [(p, ROTATION_NONE) for p in range(1, n + 1)]
AllPages(n) == [p \in 1..n |-> <<p, ROTATION_NONE>>]

\* input_args['pages'] or all pages (lines 48-50, 105-107)
InclusiveRangeDropsRotation(spec) ==
    IF spec.pages # <<>>
    THEN [i \in 1..Len(spec.pages) |-> <<spec.pages[i][1], ROTATION_NONE>>]
    ELSE AllPages(spec.pdf)

InclusiveRange(spec) ==
    IF spec.pages # <<>> THEN spec.pages ELSE AllPages(spec.pdf)

\* the pages of 1..n not named in input_args['pages'] (lines 109-112)
ExclusiveRangeComparesPairs(spec) ==
    SelectSeq(AllPages(spec.pdf), LAMBDA pr : pr \notin Range(spec.pages))

ExclusiveRangeOnePastEnd(spec) ==
    LET excluded == {spec.pages[i][1] : i \in 1..Len(spec.pages)} IN
    SelectSeq(AllPages(spec.pdf + 1), LAMBDA pr : pr[1] \notin excluded)

ExclusiveRange(spec) ==
    LET excluded == {spec.pages[i][1] : i \in 1..Len(spec.pages)} IN
    SelectSeq(AllPages(spec.pdf), LAMBDA pr : pr[1] \notin excluded)

PageRange(spec, inverse) ==
    IF inverse THEN ExclusiveRange(spec) ELSE InclusiveRange(spec)

\* index of the first entry of pagerange that fails the bounds check, 0 if none
FirstBad(pagerange, n) ==
    IF \E j \in 1..Len(pagerange) : ~InBounds(pagerange[j][1], n)
    THEN CHOOSE j \in 1..Len(pagerange) :
            /\ ~InBounds(pagerange[j][1], n)
            /\ \A h \in 1..(j - 1) : InBounds(pagerange[h][1], n)
    ELSE 0

\* pdf.getPage(pageno - 1).rotateClockwise(rotate) for the first k entries
Pages(i, pagerange, k) ==
    [j \in 1..k |-> <<i, pagerange[j][1], pagerange[j][2]>>]

\* CommandError("Page {} not found in {}.".format(pageno, input_args['name']))
PageNotFound(p, name) == [kind |-> "page not found", page |-> p, name |-> name]

\* the ranges of one token whose document has n pages
RangesUpTo(n, m) ==
    UNION {[1..k -> (1..(n + 1)) \X Rotations] : k \in 0..m}

\* the tokens of size at most b
TokensUpTo(b) ==
    UNION {{[name |-> <<>>, pages |-> r, numPages |-> n] : r \in RangesUpTo(n, b - n)}
           : n \in 0..b}

\* the lists of input tokens of size at most b
RECURSIVE TokenLists(_)
TokenLists(b) ==
    {<<>>} \cup
    (IF b < 1 THEN {}
     ELSE UNION {{<<t>> \o rest :
                    rest \in TokenLists(b - 1 - t.numPages - Len(t.pages))}
                 : t \in TokensUpTo(b - 1)})

\* the name of the i-th input file
FileName(i) == <<"f", Digits[i + 1]>>

Named(tokens) == [i \in 1..Len(tokens) |-> [tokens[i] EXCEPT !.name = FileName(i)]]

OutputNames == {<<>>, <<"o">>, <<"/", "o">>, <<"/", "e">>}

OutputToken(name) == [name |-> name, pages |-> <<>>, numPages |-> 0]

InitCmd ==
    /\ cmd \in {"zip", "select", "delete"}
    /\ args \in {<<>>} \cup
                {Append(Named(l), OutputToken(o)) :
                    l \in TokenLists(MaxSize), o \in OutputNames}
    /\ pc = "start"
    /\ rr = RRStart(<<>>)
    /\ Idle

\* args[:-1] and args[-1]
ButLast(s) == SubSeq(s, 1, Len(s) - 1)
Last(s) == s[Len(s)]

filesandranges == parse_ranges(ButLast(args))
outputfilename == Last(args).name

\* the exception raised inside a try block leaves as CommandError(e)
Raise(type, m) ==
    /\ err' = type
    /\ msg' = m
    /\ pc' = "done"

\* lines 33-38 and 88-94: the argument checks before the try block
CmdStart ==
    /\ cmd \in {"zip", "select", "delete"} /\ pc = "start"
    /\ IF args = <<>>
       THEN Raise("IndexError", [NoMsg EXCEPT !.kind = "list index out of range"])
       ELSE IF filesandranges = <<>> \/ outputfilename = <<>>
       THEN Raise("CommandError", [NoMsg EXCEPT !.kind = "filenames required"])
       ELSE IF cmd # "zip" /\ check_output_file(outputfilename)
       THEN Raise("CommandError", [NoMsg EXCEPT !.kind = "file exists"])
       ELSE pc' = "compose" /\ UNCHANGED <<err, msg>>
    /\ UNCHANGED <<cmd, args, rr, fileno, staged, output, template, pageno, written>>

\* lines 42-64 and 98-124: one iteration of "for input_args in filesandranges"
ComposeFile ==
    /\ pc = "compose" /\ fileno < Len(filesandranges)
    /\ LET i == fileno + 1
           spec == filesandranges[i]
           pagerange == PageRange(spec, cmd = "delete")
           bad == FirstBad(pagerange, spec.pdf)
           done == IF bad = 0 THEN Len(pagerange) ELSE bad - 1
       IN /\ IF cmd = "zip"
             THEN /\ staged' = IF bad = 0
                               THEN Append(staged, Pages(i, pagerange, done))
                               ELSE staged
                  /\ UNCHANGED output
             ELSE /\ output' = output \o Pages(i, pagerange, done)
                  /\ UNCHANGED staged
          /\ IF bad # 0
             THEN Raise("CommandError", PageNotFound(pagerange[bad][1], spec.name))
             ELSE UNCHANGED <<pc, err, msg>>
          /\ fileno' = i
    /\ UNCHANGED <<cmd, args, rr, template, pageno, written>>

\* lines 66-68: the pages of filestozip in round-robin order
Interleave ==
    /\ cmd = "zip" /\ pc = "compose" /\ fileno = Len(filesandranges)
    /\ output' = round_robin_list(staged)
    /\ pc' = "write"
    /\ UNCHANGED <<cmd, args, rr, fileno, staged, template, pageno, written, err, msg>>

\* line 126: the try block of select ends
Composed ==
    /\ cmd \in {"select", "delete"} /\ pc = "compose" /\ fileno = Len(filesandranges)
    /\ pc' = "write"
    /\ UNCHANGED <<cmd, args, rr, fileno, staged, output, template, pageno,
                   written, err, msg>>

\* lines 73-77 and 129-133
OutputPath ==
    IF isabs(outputfilename) THEN outputfilename
    ELSE destdir \o sep \o outputfilename

\* iohelper.write_pdf returns
WriteOutput ==
    /\ cmd \in {"zip", "select", "delete"} /\ pc = "write"
    /\ written' = Append(written, [path |-> OutputPath, pages |-> output])
    /\ pc' = "done"
    /\ UNCHANGED <<cmd, args, rr, fileno, staged, output, template, pageno, err, msg>>

\* iohelper.write_pdf raises
WriteFails ==
    /\ cmd \in {"zip", "select", "delete"} /\ pc = "write"
    /\ \E e \in WriteErrors :
          Raise(e, [NoMsg EXCEPT !.kind = "write failed", !.name = OutputPath])
    /\ UNCHANGED <<cmd, args, rr, fileno, staged, output, template, pageno, written>>

NextCmd == CmdStart \/ ComposeFile \/ Interleave \/ Composed \/ WriteOutput \/ WriteFails

SpecCmd == InitCmd /\ [][NextCmd]_vars

----------------------------------------------------------------------------
(* split. *)

\* the number a string of decimal digits denotes
RECURSIVE Num(_)
Num(ds) ==
    IF ds = <<>> THEN 0
    ELSE 10 * Num(SubSeq(ds, 1, Len(ds) - 1))
         + (CHOOSE d \in 0..9 : Digits[d + 1] = ds[Len(ds)])

FirstIndexFrom(s, ch, from) ==
    CHOOSE i \in from..Len(s) : s[i] = ch /\ \A j \in from..(i - 1) : s[j] # ch

\* template % n, for a template with the one conversion %0<width>d
Format(tpl, n) ==
    LET i == FirstIndexFrom(tpl, "%", 1)
        j == FirstIndexFrom(tpl, "d", i + 1)
    IN SubSeq(tpl, 1, i - 1)
       \o ZeroPad(Num(SubSeq(tpl, i + 1, j - 1)), n)
       \o SubSeq(tpl, j + 1, Len(tpl))

\* lines 162-170: ''.join([base, '_', '%0', str(ceil(log10(n))), 'd', ext])
output_template(file, n) ==
    LET be == splitext(basename(file)) IN
    be[1] \o <<"_">> \o <<"%", "0">> \o Str(CeilLog10(n)) \o <<"d">> \o be[2]

SplitPaths ==
    {<<"a", "/", "x", ".", "p">>, <<"b", "/", "x", ".", "p">>, <<"y", ".", "p">>}
    \cup Unreadable

\* one input file of split: its path and the page count of its document
SplitFiles(b) ==
    {[name |-> f, numPages |-> n] :
        f \in SplitPaths, n \in 0..b} \ 
    {[name |-> f, numPages |-> n] : f \in Unreadable, n \in 1..b}

RECURSIVE SplitLists(_, _)
SplitLists(k, b) ==
    {<<>>} \cup
    (IF k = 0 THEN {}
     ELSE UNION {{<<t>> \o rest : rest \in SplitLists(k - 1, b - t.numPages)}
                 : t \in SplitFiles(b)})

\* a path given twice names one document
SamePathSameDocument(l) ==
    \A i, j \in 1..Len(l) : l[i].name = l[j].name => l[i].numPages = l[j].numPages

InitSplit ==
    /\ cmd = "split"
    /\ args \in {l \in SplitLists(MaxSplitFiles, MaxSplitPages) : SamePathSameDocument(l)}
    /\ pc = "start"
    /\ rr = RRStart(<<>>)
    /\ Idle

files == expand_input_files(args)

\* lines 145-149
SplitStart ==
    /\ cmd = "split" /\ pc = "start"
    /\ IF files = <<>>
       THEN Raise("CommandError", [NoMsg EXCEPT !.kind = "no input files"])
       ELSE pc' = "read" /\ UNCHANGED <<err, msg>>
    /\ UNCHANGED <<cmd, args, rr, fileno, staged, output, template, pageno, written>>

\* lines 151-156: every input is read before anything else happens
SplitRead ==
    /\ cmd = "split" /\ pc = "read"
    /\ IF \E i \in 1..Len(files) : files[i].name \in Unreadable
       THEN /\ Raise("CommandError",
                     [NoMsg EXCEPT !.kind = "read failed",
                                   !.name = files[CHOOSE i \in 1..Len(files) :
                                       /\ files[i].name \in Unreadable
                                       /\ \A h \in 1..(i - 1) :
                                             files[h].name \notin Unreadable].name])
            /\ UNCHANGED staged
       ELSE /\ staged' = [i \in 1..Len(files) |-> files[i].numPages]
            /\ pc' = "template"
            /\ UNCHANGED <<err, msg>>
    /\ UNCHANGED <<cmd, args, rr, fileno, output, template, pageno, written>>

\* lines 160-170: the next input's output_template; log10(0) is a ValueError
SplitTemplate ==
    /\ cmd = "split" /\ pc = "template" /\ fileno < Len(staged)
    /\ LET n == staged[fileno + 1] IN
       IF n = 0
       THEN /\ Raise("ValueError", [NoMsg EXCEPT !.kind = "math domain error"])
            /\ UNCHANGED <<template, pageno>>
       ELSE /\ template' = output_template(files[fileno + 1].name, n)
            /\ pageno' = 0
            /\ pc' = "pages"
            /\ UNCHANGED <<err, msg>>
    /\ UNCHANGED <<cmd, args, rr, fileno, staged, output, written>>

OutputName == destdir \o sep \o Format(template, pageno + 1)

\* lines 172-181: one page is written to its own file
SplitWritePage ==
    /\ cmd = "split" /\ pc = "pages" /\ pageno < staged[fileno + 1]
    /\ output' = << <<fileno + 1, pageno + 1, ROTATION_NONE>> >>
    /\ written' = Append(written, [path |-> OutputName, pages |-> output'])
    /\ pageno' = pageno + 1
    /\ UNCHANGED <<cmd, args, pc, rr, fileno, staged, template, err, msg>>

\* lines 179-180: iohelper.write_pdf raises
SplitWriteFails ==
    /\ cmd = "split" /\ pc = "pages" /\ pageno < staged[fileno + 1]
    /\ output' = << <<fileno + 1, pageno + 1, ROTATION_NONE>> >>
    /\ \E e \in WriteErrors :
          Raise(e, [NoMsg EXCEPT !.kind = "write failed", !.name = OutputName])
    /\ UNCHANGED <<cmd, args, rr, fileno, staged, template, pageno, written>>

\* line 182: filecount += 1
SplitNextFile ==
    /\ cmd = "split" /\ pc = "pages" /\ pageno = staged[fileno + 1]
    /\ fileno' = fileno + 1
    /\ pc' = "template"
    /\ UNCHANGED <<cmd, args, rr, staged, output, template, pageno, written, err, msg>>

\* lines 184-186: all inputs are done
SplitReturn ==
    /\ cmd = "split" /\ pc = "template" /\ fileno = Len(staged)
    /\ pc' = "done"
    /\ UNCHANGED <<cmd, args, rr, fileno, staged, output, template, pageno,
                   written, err, msg>>

NextSplit ==
    \/ SplitStart \/ SplitRead \/ SplitTemplate \/ SplitWritePage
    \/ SplitWriteFails \/ SplitNextFile \/ SplitReturn

SpecSplit == InitSplit /\ [][NextSplit]_vars

----------------------------------------------------------------------------
(* Claims about round_robin_list. *)

\* the reference order: round r takes element r of every iterable that has one
RefRound(lists, r) ==
    LET idx == SelectSeq([i \in 1..Len(lists) |-> i],
                         LAMBDA i : Len(lists[i]) >= r)
    IN [j \in 1..Len(idx) |-> lists[idx[j]][r]]

RefRounds(lists) ==
    LET longest == IF lists = <<>> THEN 0
                   ELSE CHOOSE m \in {Len(lists[i]) : i \in 1..Len(lists)} :
                            \A i \in 1..Len(lists) : Len(lists[i]) <= m
    IN Flatten([r \in 1..longest |-> RefRound(lists, r)])

IsPrefix(s, t) == Len(s) <= Len(t) /\ s = SubSeq(t, 1, Len(s))

\* C1: what round_robin_list has yielded is always a prefix of the reference
\* round-robin order of its input, and when it returns it has yielded exactly
\* that order.
C1_RoundRobinOrder ==
    cmd = "rr" =>
        /\ IsPrefix(rr.out, RefRounds(args))
        /\ (pc = "done" => rr.out = RefRounds(args))

\* the docstring's example ['ABC', 'D', 'EF'] --> A D E B F C
C1_Witness ==
    /\ cmd = "rr" /\ pc = "done"
    /\ args = Tagged(<<3, 1, 2>>)
    /\ rr.out = << <<1, 1>>, <<2, 1>>, <<3, 1>>, <<1, 2>>, <<3, 2>>, <<1, 3>> >>

Lens(lists) == [i \in 1..Len(lists) |-> Len(lists[i])]

RRComplete ==
    /\ Len(rr.out) = SumSeq(Lens(args))
    /\ \A i \in 1..Len(args) : \A k \in 1..Len(args[i]) :
           Cardinality({p \in 1..Len(rr.out) : rr.out[p] = <<i, k>>}) = 1
    /\ \A p, q \in 1..Len(rr.out) :
           (p < q /\ rr.out[p][1] = rr.out[q][1]) => rr.out[p][2] < rr.out[q][2]

\* C10: a consumer that keeps resuming round_robin_list sees it return, and
\* when it has returned every element of every input sequence was yielded
\* exactly once, the elements of one sequence in their original order.
C10_TerminatesComplete ==
    /\ <>(pc = "done")
    /\ [](pc = "done" => RRComplete)

\* one sequence empty from the start, one that runs out early, one longer
C10_Witness ==
    /\ cmd = "rr" /\ pc = "done"
    /\ Lens(args) = <<0, 1, 3>>
    /\ Len(rr.out) = 4

----------------------------------------------------------------------------
(* Claims about zip, select and delete. *)

\* the input tokens of the invocation and its output name, as the caller gave them
Inputs == ButLast(args)

\* the invocation names inputs and an output the command may create
Accepted ==
    /\ args # <<>>
    /\ Inputs # <<>>
    /\ Last(args).name # <<>>
    /\ (cmd = "zip" \/ Last(args).name \notin ExistingFiles)

Within(i, j) == Inputs[i].pages[j][1] \in 1..Inputs[i].numPages

AllWithin ==
    \A i \in 1..Len(Inputs) : \A j \in 1..Len(Inputs[i].pages) : Within(i, j)

\* the expansion of input i on the inclusive path
Expansion(i) ==
    LET t == Inputs[i] IN
    IF Len(t.pages) = 0
    THEN [p \in 1..t.numPages |-> <<i, p, 0>>]
    ELSE [j \in 1..Len(t.pages) |-> <<i, t.pages[j][1], t.pages[j][2]>>]

Concatenation(k) == Flatten([i \in 1..k |-> Expansion(i)])

\* C6: select (inverse=False) on inputs whose pages are all within bounds adds
\* to the output, in input order, each input's expansion: pages 1..count with
\* rotation 0 for an empty range, and otherwise the range in its stated order
\* with its stated rotations; that plan is what is written.
C6_SelectConcatenates ==
    (cmd = "select" /\ Accepted /\ AllWithin) =>
        /\ (pc = "compose" => output = Concatenation(fileno))
        /\ (pc \in {"write", "done"} => output = Concatenation(Len(Inputs)))
        /\ (pc = "done" /\ err = "none" =>
                /\ Len(written) = 1
                /\ written[1].pages = Concatenation(Len(Inputs)))

\* two inputs, one with a range that is not ascending and carries a rotation
C6_Witness ==
    /\ cmd = "select" /\ Accepted /\ AllWithin
    /\ pc = "done" /\ err = "none"
    /\ Len(Inputs) = 2
    /\ \E i \in 1..2 : \E j \in 1..(Len(Inputs[i].pages) - 1) :
          /\ Inputs[i].pages[j][1] >= Inputs[i].pages[j + 1][1]
          /\ Inputs[i].pages[j][2] # 0
    /\ \E i \in 1..2 : Inputs[i].pages = <<>> /\ Inputs[i].numPages > 0
    /\ written[1].pages = Concatenation(2)

\* the positions <<input, range item>> that name a page outside the document
Offending ==
    {ij \in UNION {{<<i, j>> : j \in 1..Len(Inputs[i].pages)} : i \in 1..Len(Inputs)} :
        ~Within(ij[1], ij[2])}

FirstOffending ==
    CHOOSE ij \in Offending :
        \A o \in Offending : ij[1] < o[1] \/ (ij[1] = o[1] /\ ij[2] <= o[2])

\* C7: zip and select (inverse=False): when a range names a page outside
\* [1, page_count] of its file, nothing is ever written, and the command ends
\* with a CommandError whose message names the first such page and its file.
C7_OutOfRangeFails ==
    (cmd \in {"zip", "select"} /\ Accepted /\ Offending # {}) =>
        /\ written = <<>>
        /\ pc # "write"
        /\ (pc = "done" =>
                /\ err = "CommandError"
                /\ msg.kind = "page not found"
                /\ msg.page = Inputs[FirstOffending[1]].pages[FirstOffending[2]][1]
                /\ msg.name = Inputs[FirstOffending[1]].name)

\* the offending page is the last item of the last of two inputs
C7_Witness ==
    /\ cmd \in {"zip", "select"} /\ Accepted
    /\ pc = "done" /\ err = "CommandError"
    /\ Len(Inputs) = 2
    /\ Offending = {<<2, 2>>}
    /\ msg.name = Inputs[2].name

\* the page numbers emitted for input i, in output order
Emitted(i) ==
    LET mine == SelectSeq(output, LAMBDA pg : pg[1] = i) IN
    [j \in 1..Len(mine) |-> mine[j][2]]

NamedPages(i) == {Inputs[i].pages[j][1] : j \in 1..Len(Inputs[i].pages)}

Ascending(s) == \A a, b \in 1..Len(s) : a < b => s[a] < s[b]

\* C8: delete emits, for every input, exactly the pages of 1..n whose number
\* the range does not name, ascending, each once, each with rotation 0, input
\* after input.
C8_DeleteComplement ==
    (cmd = "delete" /\ Accepted /\ pc \in {"write", "done"}) =>
        /\ \A a, b \in 1..Len(output) : a < b => output[a][1] <= output[b][1]
        /\ \A a \in 1..Len(output) : output[a][3] = 0
        /\ \A i \in 1..Len(Inputs) :
              /\ Ascending(Emitted(i))
              /\ Range(Emitted(i)) \cap NamedPages(i) = {}
              /\ Range(Emitted(i)) \cup (NamedPages(i) \cap 1..Inputs[i].numPages)
                    = 1..Inputs[i].numPages
              /\ (Inputs[i].pages = <<>> => Len(Emitted(i)) = Inputs[i].numPages)
        /\ (pc = "done" /\ err = "none" => written[1].pages = output)

\* a page named with a rotation is dropped, its neighbours are kept
C8_Witness ==
    /\ cmd = "delete" /\ Accepted /\ pc = "done" /\ err = "none"
    /\ Inputs[1].numPages = 3
    /\ Inputs[1].pages = << <<2, 90>> >>
    /\ written[1].pages = << <<1, 1, 0>>, <<1, 3, 0>> >>

\* C9: delete never reports a page as not found, whatever its ranges name;
\* page numbers beyond the page count change nothing: every page emitted
\* exists, and each input contributes its page count less the existing pages
\* its range names.
C9_DeleteTolerant ==
    cmd = "delete" =>
        /\ msg.kind # "page not found"
        /\ (Accepted /\ pc = "done" => (err = "none" \/ msg.kind = "write failed"))
        /\ (Accepted /\ pc \in {"write", "done"} =>
                \A i \in 1..Len(Inputs) :
                    /\ Range(Emitted(i)) \subseteq 1..Inputs[i].numPages
                    /\ Len(Emitted(i)) = Inputs[i].numPages
                          - Cardinality(NamedPages(i) \cap 1..Inputs[i].numPages))

\* all pages stay although the range names a page the document does not have
C9_Witness ==
    /\ cmd = "delete" /\ Accepted /\ pc = "done" /\ err = "none"
    /\ Inputs[1].numPages = 3
    /\ NamedPages(1) = {4}
    /\ written[1].pages = << <<1, 1, 0>>, <<1, 2, 0>>, <<1, 3, 0>> >>

\* C5: whenever a command fails, the exception that reaches the caller is a
\* CommandError.
C5_UniformCommandError ==
    (pc = "done" /\ err # "none") => err = "CommandError"

----------------------------------------------------------------------------
(* Claims about split and about failures. *)

\* the number of decimal digits of n >= 1
RECURSIVE NumDigits(_)
NumDigits(n) == IF n < 10 THEN 1 ELSE 1 + NumDigits(n \div 10)

\* <destdir>/<base>_<index in exactly d characters><ext> for page idx of input i
PaddedName(i, idx) ==
    LET be == splitext(basename(args[i].name))
        d  == NumDigits(args[i].numPages)
        ds == Str(idx)
    IN destdir \o sep \o be[1] \o <<"_">>
       \o [z \in 1..(d - Len(ds)) |-> "0"] \o ds \o be[2]

\* C3: every output name of split renders the page index zero-padded to the
\* number of decimal digits of the input's page count.
C3_PaddedToDigitsOfCount ==
    cmd = "split" =>
        \A w \in 1..Len(written) :
            written[w].path = PaddedName(written[w].pages[1][1], written[w].pages[1][2])

\* C4: no two pages written by one split invocation go to the same output path.
C4_DistinctOutputPaths ==
    cmd = "split" =>
        \A v, w \in 1..Len(written) : v # w => written[v].path # written[w].path

\* C2: a command that failed has written no output file.
C2_NoOutputOnFailure ==
    err # "none" => written = <<>>

====
